---- MODULE Spec2Model ----
(***************************************************************************)
(* Decision-market bandit environment (Environment.py, main.py).           *)
(*                                                                         *)
(* Numbers.  The program computes with floats; the model computes with     *)
(* exact values.  A rational is <<n, d>> in lowest terms with d > 0.  A    *)
(* logit h = ln(a/b) is the odds pair <<a, b>>, so that expit(h) is the    *)
(* rational a/(a+b).  A score is an element of the rational vector space   *)
(* spanned by 1 and ln p for the primes p in Primes:                       *)
(*      [q |-> rational part, ln |-> [p \in Primes |-> coefficient of ln p]]*)
(* (1, ln 2, ln 3, ln 5 are linearly independent over the rationals, so    *)
(* two scores are equal as reals iff they are equal as such records).      *)
(***************************************************************************)
EXTENDS Integers, Sequences, FiniteSets, TLC

VARIABLES
    pm,        \* a PredictionMarket used on its own
    before,    \* history variable: current_prediction as seen by each report of pm
    dm,        \* a DecisionMarket
    buckets,   \* the MultiBuckets of the round: colour of each Bucket
    ex,        \* an Explorer
    runs,      \* two runs of the round loop started from the same seed
    main,      \* the training loop of main.py: parameters, position, locals
    agents,    \* agent_list
    op,        \* the last call made: its name and arguments
    ret        \* what that call returned or raised

vars == <<pm, before, dm, buckets, ex, runs, main, agents, op, ret>>

-----------------------------------------------------------------------------
(* Bounds of the model *)

MaxReports == 2        \* reports made to the stand-alone PredictionMarket
MaxAgents == 1         \* reports made to a DecisionMarket in one round
MaxBeliefReports == 2  \* reports of raw belief vectors
MaxCalls == 3          \* calls made on the Explorer
MaxDraws == 7          \* random draws of one run
MaxSize == 2           \* balls drawn by one call of MultiBuckets.signal
MaxEpisodes == 2       \* training_episodes

-----------------------------------------------------------------------------
(* Exact arithmetic standing for the float arithmetic of numpy *)

Abs(x) == IF x < 0 THEN -x ELSE x

RECURSIVE GCD(_, _)
GCD(a, b) == IF b = 0 THEN a ELSE GCD(b, a % b)

Rat(n, d) ==
    LET g == GCD(Abs(n), Abs(d))
        s == IF d < 0 THEN -1 ELSE 1
    IN  <<(s * n) \div g, (s * d) \div g>>

RZero == <<0, 1>>
ROne == <<1, 1>>
RAdd(x, y) == Rat(x[1] * y[2] + y[1] * x[2], x[2] * y[2])
RNeg(x) == <<-x[1], x[2]>>
RSub(x, y) == RAdd(x, RNeg(y))
RMul(x, y) == Rat(x[1] * y[1], x[2] * y[2])
RDiv(x, y) == Rat(x[1] * y[2], x[2] * y[1])
RLt(x, y) == x[1] * y[2] < y[1] * x[2]
RSquare(x) == RMul(x, x)

Primes == {2, 3, 5}

RECURSIVE Valuation(_, _)
Valuation(n, p) == IF n % p = 0 THEN 1 + Valuation(n \div p, p) ELSE 0

NZero == [q |-> RZero, ln |-> [p \in Primes |-> RZero]]
NRat(x) == [q |-> x, ln |-> [p \in Primes |-> RZero]]
\* np.log of a positive rational whose numerator and denominator factor over Primes
NLog(x) == [q |-> RZero,
            ln |-> [p \in Primes |-> <<Valuation(x[1], p) - Valuation(x[2], p), 1>>]]
NAdd(x, y) == [q |-> RAdd(x.q, y.q), ln |-> [p \in Primes |-> RAdd(x.ln[p], y.ln[p])]]
NSub(x, y) == [q |-> RSub(x.q, y.q), ln |-> [p \in Primes |-> RSub(x.ln[p], y.ln[p])]]
NScale(c, x) == [q |-> RMul(c, x.q), ln |-> [p \in Primes |-> RMul(c, x.ln[p])]]
NDiv(x, c) == [q |-> RDiv(x.q, c), ln |-> [p \in Primes |-> RDiv(x.ln[p], c)]]

RECURSIVE NSum(_)
NSum(s) == IF s = <<>> THEN NZero ELSE NAdd(Head(s), NSum(Tail(s)))

\* element-wise operations on score arrays
ArrDiv(a, c) == [i \in 1..Len(a) |-> NDiv(a[i], c)]
ArrScale(c, a) == [i \in 1..Len(a) |-> NScale(c, a[i])]
ArrAdd(a, b) == [i \in 1..Len(a) |-> NAdd(a[i], b[i])]

-----------------------------------------------------------------------------
(* Enumerations *)

RED == 0
BLUE == 1
BucketColour == {RED, BLUE}

ScoreFunction == {"LOG", "QUADRATIC"}
DecisionRule == {"STOCHASTIC", "DETERMINISTIC"}
\* a tag that is no member of the enumeration (Python accepts any object)
OtherTag == "OTHER"

\* logits reported into a market: ln(1/4), ln(1), ln(4)
Logits == {<<1, 4>>, <<1, 1>>, <<4, 1>>}
\* a prior_red in [0, 1] read as a logit by the market: 0 = ln(1/1), ln(2/1)
PriorLogits == {<<1, 1>>, <<2, 1>>}

None == [tag |-> "None", val |-> <<>>, index |-> -1]
Returned(v, i) == [tag |-> "return", val |-> v, index |-> i]
Raised(e) == [tag |-> e, val |-> <<>>, index |-> -1]

-----------------------------------------------------------------------------
(* PredictionMarket *)

expit(h) == Rat(h[1], h[1] + h[2])

\* [prob, 1 - prob], indexed by materialised_index + 1
prob_tuple(h) == <<expit(h), RSub(ROne, expit(h))>>

PredictionMarket_init(no, prior_red) ==
    [no |-> no,
     current_prediction |-> prior_red,
     sampled_prediction_history |-> <<prior_red>>,
     mean_prediction_history |-> <<prior_red>>]

PredictionMarket_report_overwrite(m, sampled_prediction, mean_prediction) ==
    [m EXCEPT !.sampled_prediction_history =
                  [@ EXCEPT ![Len(@)] = sampled_prediction],
              !.mean_prediction_history =
                  [@ EXCEPT ![Len(@)] = mean_prediction],
              !.current_prediction = mean_prediction]

PredictionMarket_report_no_mean(m, sampled_prediction, mean_prediction) ==
    [m EXCEPT !.sampled_prediction_history = Append(@, sampled_prediction),
              !.current_prediction = mean_prediction]

PredictionMarket_report(m, sampled_prediction, mean_prediction) ==
    [m EXCEPT !.sampled_prediction_history = Append(@, sampled_prediction),
              !.mean_prediction_history = Append(@, mean_prediction),
              !.current_prediction = mean_prediction]

log_resolve_prev_sampled(m, materialised_index) ==
    [i \in 1..(Len(m.sampled_prediction_history) - 1) |->
        LET current_prob_tuple == prob_tuple(m.sampled_prediction_history[i + 1])
            prev_prob_tuple == prob_tuple(m.sampled_prediction_history[i])
        IN  NSub(NLog(current_prob_tuple[materialised_index + 1]),
                 NLog(prev_prob_tuple[materialised_index + 1]))]

log_resolve(m, materialised_index) ==
    [i \in 1..(Len(m.sampled_prediction_history) - 1) |->
        LET current_prob_tuple == prob_tuple(m.sampled_prediction_history[i + 1])
            prev_prob_tuple == prob_tuple(m.mean_prediction_history[i])
        IN  NSub(NLog(current_prob_tuple[materialised_index + 1]),
                 NLog(prev_prob_tuple[materialised_index + 1]))]

\* np.sum(np.square(t)) / 2
half_sum_square(t) == RDiv(RAdd(RSquare(t[1]), RSquare(t[2])), <<2, 1>>)

brier_resolve_absolute(m, materialised_index) ==
    [i \in 1..(Len(m.sampled_prediction_history) - 1) |->
        LET current_prob_tuple == prob_tuple(m.sampled_prediction_history[i + 1])
        IN  NRat(RSub(current_prob_tuple[materialised_index + 1],
                      half_sum_square(current_prob_tuple)))]

brier_resolve(m, materialised_index) ==
    [i \in 1..(Len(m.sampled_prediction_history) - 1) |->
        LET current_prob_tuple == prob_tuple(m.sampled_prediction_history[i + 1])
            prev_prob_tuple == prob_tuple(m.mean_prediction_history[i])
            current_scores == RSub(current_prob_tuple[materialised_index + 1],
                                   half_sum_square(current_prob_tuple))
            previous_scores == RSub(prev_prob_tuple[materialised_index + 1],
                                    half_sum_square(prev_prob_tuple))
        IN  NRat(RSub(current_scores, previous_scores))]

PredictionMarket_resolve(m, score_func, materialised_index) ==
    IF score_func = "LOG" THEN Returned(log_resolve(m, materialised_index), -1)
    ELSE IF score_func = "QUADRATIC"
         THEN Returned(brier_resolve(m, materialised_index), -1)
         ELSE Raised("ValueError")

-----------------------------------------------------------------------------
(* DecisionMarket *)

\* logits reported into the conditional markets of a DecisionMarket
DMLogits == {<<1, 4>>, <<4, 1>>}

\* preferred_colour_pr_list for action_num options: probabilities summing to 1
PrLists(action_num) ==
    IF action_num = 1 THEN {<< <<1, 1>> >>}
    ELSE {<< <<4, 5>>, <<1, 5>> >>, << <<1, 1>>, <<0, 1>> >>}

\* h1 < h2 for logits (ln is increasing)
LogitLt(h1, h2) == h1[1] * h2[2] < h2[1] * h1[2]

DecisionMarket_init(action_num, prior_red_instances, decision_rule, preferred_colour, preferred_colour_pr_list) ==
    [conditional_market_num |-> action_num,
     conditional_market_list |->
         [i \in 1..action_num |-> PredictionMarket_init(i - 1, prior_red_instances[i])],
     preferred_colour |-> preferred_colour,
     decision_rule |-> decision_rule,
     preferred_colour_pr_list |-> preferred_colour_pr_list]

\* zip(conditional_market_list, np.squeeze(sampled), np.squeeze(mean)): squeezing
\* an array of one element gives a 0-d array, which zip cannot iterate (TypeError)
DecisionMarket_report(d, sampled_predictions, mean_predictions) ==
    IF Len(sampled_predictions) = 1 \/ Len(mean_predictions) = 1
    THEN d
    ELSE [d EXCEPT !.conditional_market_list =
            [i \in 1..d.conditional_market_num |->
                PredictionMarket_report(@[i], sampled_predictions[i],
                                        mean_predictions[i])]]

DecisionMarket_report_ret(d, sampled_predictions, mean_predictions) ==
    IF Len(sampled_predictions) = 1 \/ Len(mean_predictions) = 1
    THEN Raised("TypeError")
    ELSE None

read_current_pred(d) ==
    [i \in 1..d.conditional_market_num |-> d.conditional_market_list[i].current_prediction]

argmin(l) ==
    (CHOOSE i \in 1..Len(l) :
        /\ \A j \in 1..Len(l) : ~LogitLt(l[j], l[i])
        /\ \A j \in 1..(i - 1) : LogitLt(l[i], l[j])) - 1

\* np.argmax: the index (from 0) of the first maximum
argmax(l) ==
    (CHOOSE i \in 1..Len(l) :
        /\ \A j \in 1..Len(l) : ~LogitLt(l[i], l[j])
        /\ \A j \in 1..(i - 1) : LogitLt(l[j], l[i])) - 1

\* insert market m into the descending list s after every market that is not
\* smaller (sorted is stable, with reverse=True too)
RECURSIVE InsertDescending(_, _)
InsertDescending(m, s) ==
    IF s = <<>> THEN <<m>>
    ELSE IF LogitLt(Head(s).current_prediction, m.current_prediction)
         THEN <<m>> \o s
         ELSE <<Head(s)>> \o InsertDescending(m, Tail(s))

RECURSIVE SortDescending(_, _)
SortDescending(l, n) ==
    IF n = 0 THEN <<>> ELSE InsertDescending(l[n], SortDescending(l, n - 1))

sorted_market_list_unsorted(d) == d.conditional_market_list

\* sorted(conditional_market_list, key=current_prediction, reverse=True)
sorted_market_list(d) ==
    SortDescending(d.conditional_market_list, d.conditional_market_num)

\* generator.choice(a, p=p): every row of a that p gives a positive probability,
\* with the probability of drawing it
choice(a, p) ==
    {[probability |-> p[k], row |-> a[k]] : k \in {j \in 1..Len(a) : RLt(RZero, p[j])}}

\* list(zip(preferred_colour_pr_list, sorted_market_list))
rank_rows(d) ==
    [k \in 1..d.conditional_market_num |->
        <<d.preferred_colour_pr_list[k], sorted_market_list(d)[k]>>]

\* the draws generator.choice can make in resolve
resolve_draws(d) == choice(rank_rows(d), d.preferred_colour_pr_list)

deterministic_branch(d) ==
    d.decision_rule = "DETERMINISTIC" \/ d.conditional_market_num = 1

resolve_stochastic_undivided(d, score_func, bucket_list, draw) ==
    LET conditional_market == draw.row[2]
        index == conditional_market.no
        bucket == bucket_list[index + 1]
    IN  IF score_func = "LOG"
        THEN Returned(log_resolve(conditional_market, bucket.colour), index)
        ELSE IF score_func = "QUADRATIC"
             THEN Returned(brier_resolve(conditional_market, bucket.colour), index)
             ELSE Raised("ValueError")

resolve_stochastic(d, score_func, bucket_list, draw) ==
    LET pr == draw.row[1]
        conditional_market == draw.row[2]
        index == conditional_market.no
        bucket == bucket_list[index + 1]
    IN  IF score_func = "LOG"
        THEN Returned(ArrDiv(log_resolve(conditional_market, bucket.colour), pr), index)
        ELSE IF score_func = "QUADRATIC"
             THEN Returned(ArrDiv(brier_resolve(conditional_market, bucket.colour), pr),
                           index)
             ELSE Raised("ValueError")

resolve_deterministic(d, score_func, bucket_list) ==
    LET current_price_list == read_current_pred(d)
        index == argmax(current_price_list)
        conditional_market == d.conditional_market_list[index + 1]
        bucket == bucket_list[index + 1]
    IN  IF score_func = "LOG"
        THEN Returned(log_resolve(conditional_market, bucket.colour), index)
        ELSE IF score_func = "QUADRATIC"
             THEN Returned(brier_resolve(conditional_market, bucket.colour), index)
             ELSE Raised("ValueError")

\* DecisionMarket.resolve, given the draw its generator makes in the else branch
DecisionMarket_resolve(d, score_func, bucket_list, draw) ==
    IF deterministic_branch(d)
    THEN resolve_deterministic(d, score_func, bucket_list)
    ELSE resolve_stochastic(d, score_func, bucket_list, draw)

-----------------------------------------------------------------------------
(* Bucket, MultiBuckets *)

\* the colours np.random.choice([RED, BLUE], p=(prior_red, 1 - prior_red)) can
\* give: prior_red = 0 (the logit <<1, 1>>) leaves BLUE only
bucket_colours(prior_red) == IF prior_red = <<1, 1>> THEN {BLUE} ELSE {RED, BLUE}

Ball == {RED, BLUE}

\* colour is the outcome of the np.random.choice made by __init__
Bucket_init(no, prior_red, pr_red_ball_red_bucket, pr_red_ball_blue_bucket, colour) ==
    [no |-> no,
     prior_red |-> prior_red,
     pr_red_ball_red_bucket |-> pr_red_ball_red_bucket,
     pr_red_ball_blue_bucket |-> pr_red_ball_blue_bucket,
     colour |-> colour]

ball_distribution(bucket) ==
    IF bucket.colour = RED
    THEN <<bucket.pr_red_ball_red_bucket, RSub(ROne, bucket.pr_red_ball_red_bucket)>>
    ELSE <<bucket.pr_red_ball_blue_bucket, RSub(ROne, bucket.pr_red_ball_blue_bucket)>>

\* the balls np.random.choice([Ball.RED, Ball.BLUE], p=ball_distribution) can give
Bucket_signal(bucket) == {ball \in Ball : ball_distribution(bucket)[ball + 1] # RZero}

\* index is the outcome of np.random.randint(bucket_num), colours those of the Buckets
MultiBuckets_init(bucket_num, prior_red_instances, pr_red_ball_red_bucket, pr_red_ball_blue_bucket, index, colours) ==
    [pr_red_ball_red_bucket |-> pr_red_ball_red_bucket,
     pr_red_ball_blue_bucket |-> pr_red_ball_blue_bucket,
     index |-> index,
     bucket_num |-> bucket_num,
     bucket_list |-> [i \in 1..bucket_num |->
                         Bucket_init(i - 1, prior_red_instances[i], pr_red_ball_red_bucket,
                                     pr_red_ball_blue_bucket, colours[i])]]

\* 0-based column of signal_mat that a ball of a bucket is counted in
signal_column_stride2(bucket, ball) == bucket.no * 2 + ball

signal_column(bucket, ball) == bucket.no * 3 + ball

\* the for loop of signal: draws[k] = <<position in bucket_list of the k-th bucket
\* chosen, ball drawn from it>>
RECURSIVE count_balls(_, _, _)
count_balls(signal_row, bucket_list, draws) ==
    IF draws = <<>> THEN signal_row
    ELSE LET bucket == bucket_list[Head(draws)[1]]
             ball == Head(draws)[2]
         IN  count_balls([signal_row EXCEPT ![signal_column(bucket, ball) + 1] = @ + 1],
                         bucket_list, Tail(draws))

\* signal_mat, of shape (1, 3 * bucket_num); t is not used
MultiBuckets_signal(mb, size, t, draws) ==
    << count_balls([j \in 1..(3 * mb.bucket_num) |-> 0], mb.bucket_list, draws) >>

-----------------------------------------------------------------------------
(* Explorer.  theta_std is kept in units of ln 2, so that exp(signal . theta_std)
   is the rational 2^(signal . theta_std); rewards are in the same unit. *)

feature_num == 3
MaxTheta == 3          \* theta_std entries are whole, in -MaxTheta..MaxTheta

\* min_std: the default 0.3, and a floor above exp(0)
MinStds == {<<3, 10>>, <<2, 1>>}
\* standard-normal deviates z of a draw h = mean + z * std
Deviates == {0, 2}
\* rewards passed to update
Rewards == {<<-1, 1>>, <<1, 1>>}

\* feature vectors of one observed ball: RED from bucket 0, BLUE from the last bucket
SignalArrays(action_num) ==
    {[i \in 1..(feature_num * action_num) |-> IF i = 1 THEN 1 ELSE 0],
     [i \in 1..(feature_num * action_num) |->
         IF i = feature_num * (action_num - 1) + 2 THEN 1 ELSE 0]}

\* fixed_std of set_parameters: 0.3 as in main, and 0.5
FixedStds == {<<3, 10>>, <<1, 2>>}

MeanArrays(action_num) ==
    {[j \in 1..action_num |-> RZero], [j \in 1..action_num |-> <<1, 2>>]}

Array(v) == [scalar |-> FALSE, v |-> v]
Scalar(x) == [scalar |-> TRUE, v |-> <<x>>]
\* element j of a (1, n) array, or a scalar broadcast to it
At(a, j) == IF a.scalar THEN a.v[1] ELSE a.v[j]

Explorer_init(action_num, learning, init_learning_rate, min_std) ==
    [action_num |-> action_num,
     mean_array |-> [j \in 1..action_num |-> RZero],
     std_array |-> Array([j \in 1..action_num |-> ROne]),
     theta_std |-> [i \in 1..(feature_num * action_num) |-> [j \in 1..action_num |-> RZero]],
     init_learning_rate |-> init_learning_rate,
     learning_rate |-> init_learning_rate,
     learning |-> learning,
     min_std |-> min_std,
     h_array |-> <<>>,
     calls |-> 0]

set_parameters(e, mean_array, fixed_std) ==
    [e EXCEPT !.mean_array = mean_array,
              !.std_array = Array([j \in 1..e.action_num |-> fixed_std])]

RECURSIVE Dot(_, _, _, _)
Dot(signal_array, theta, j, i) ==
    IF i = 0 THEN RZero
    ELSE RAdd(RMul(<<signal_array[i], 1>>, theta[i][j]), Dot(signal_array, theta, j, i - 1))

\* np.exp of a whole multiple k of ln 2
Exp2(k) == IF k[1] >= 0 THEN <<2 ^ k[1], 1>> ELSE <<1, 2 ^ (-k[1])>>

\* np.exp(np.matmul(signal_array, self.theta_std))
exp_matmul(e, signal_array) ==
    [j \in 1..e.action_num |-> Exp2(Dot(signal_array, e.theta_std, j, Len(signal_array)))]

\* `if self.std_array < self.min_std` is defined for an array of one element only
truth_value_defined(e) == e.action_num = 1

\* np.random.normal(loc=mean_array, scale=std_array), for the deviates z
normal(mean_array, std_array, z) ==
    [j \in 1..Len(mean_array) |-> RAdd(mean_array[j], RMul(<<z[j], 1>>, At(std_array, j)))]

Explorer_report(e, signal_array, z) ==
    IF ~e.learning
    THEN [e EXCEPT !.h_array = normal(e.mean_array, e.std_array, z)]
    ELSE LET std == exp_matmul(e, signal_array)
         IN  IF ~truth_value_defined(e)
             THEN [e EXCEPT !.std_array = Array(std)]
             ELSE LET clipped == IF RLt(std[1], e.min_std)
                                 THEN Scalar(e.min_std) ELSE Array(std)
                  IN  [e EXCEPT !.std_array = clipped,
                                !.h_array = normal(e.mean_array, clipped, z)]

Explorer_report_ret(e, signal_array, z) ==
    IF e.learning /\ ~truth_value_defined(e)
    THEN Raised("ValueError")
    ELSE Returned(Explorer_report(e, signal_array, z).h_array, -1)

\* reward * (np.power(h_array - mean_array, 2) / np.power(std_array, 2) - 1)
weighted_score(e, reward) ==
    [j \in 1..e.action_num |->
        RMul(reward, RSub(RDiv(RSquare(RSub(e.h_array[j], e.mean_array[j])),
                               RSquare(At(e.std_array, j))),
                          ROne))]

Explorer_update_always(e, reward, signal_array) ==
    IF e.h_array = <<>>
    THEN e
    ELSE [e EXCEPT !.theta_std =
            [i \in 1..Len(signal_array) |-> [j \in 1..e.action_num |->
                RAdd(@[i][j], RMul(e.learning_rate,
                                   RMul(<<signal_array[i], 1>>,
                                        weighted_score(e, reward)[j])))]]]

Explorer_update(e, reward, signal_array) ==
    IF ~e.learning \/ e.h_array = <<>>
    THEN e
    ELSE [e EXCEPT !.theta_std =
            [i \in 1..Len(signal_array) |-> [j \in 1..e.action_num |->
                RAdd(@[i][j], RMul(e.learning_rate,
                                   RMul(<<signal_array[i], 1>>,
                                        weighted_score(e, reward)[j])))]]]

\* update before any report: h_array is still list(), which does not broadcast
Explorer_update_ret(e, reward, signal_array) ==
    IF e.learning /\ e.h_array = <<>> THEN Raised("ValueError") ELSE None

-----------------------------------------------------------------------------
(* Values of the components a specification does not use *)

NoMarket == PredictionMarket_init(0, <<1, 1>>)
NoDecisionMarket == DecisionMarket_init(0, <<>>, "DETERMINISTIC", RED, <<>>)
NoExplorer == Explorer_init(0, FALSE, ROne, <<3, 10>>)
NoRuns == <<>>
NoMain == [pc |-> "none"]
NoOp == [name |-> "init"]

-----------------------------------------------------------------------------
(* SpecPM: one PredictionMarket, reported to and resolved directly *)

InitPM ==
    /\ \E prior_red \in PriorLogits \cup Logits :
            pm = PredictionMarket_init(0, prior_red)
    /\ before = <<>>
    /\ dm = NoDecisionMarket
    /\ buckets = <<>>
    /\ ex = NoExplorer
    /\ runs = NoRuns
    /\ main = NoMain
    /\ agents = <<>>
    /\ op = NoOp
    /\ ret = None

PMReport ==
    /\ Len(pm.mean_prediction_history) - 1 < MaxReports
    /\ \E sampled_prediction \in Logits, mean_prediction \in Logits :
          /\ pm' = PredictionMarket_report(pm, sampled_prediction, mean_prediction)
          /\ before' = Append(before, pm.current_prediction)
          /\ op' = [name |-> "report"]
          /\ ret' = None
    /\ UNCHANGED <<dm, buckets, ex, runs, main, agents>>

PMLogResolve ==
    /\ \E materialised_index \in BucketColour :
          /\ op' = [name |-> "log_resolve", materialised_index |-> materialised_index]
          /\ ret' = Returned(log_resolve(pm, materialised_index), -1)
    /\ UNCHANGED <<pm, before, dm, buckets, ex, runs, main, agents>>

PMBrierResolve ==
    /\ \E materialised_index \in BucketColour :
          /\ op' = [name |-> "brier_resolve", materialised_index |-> materialised_index]
          /\ ret' = Returned(brier_resolve(pm, materialised_index), -1)
    /\ UNCHANGED <<pm, before, dm, buckets, ex, runs, main, agents>>

PMResolve ==
    /\ \E score_func \in ScoreFunction \cup {OtherTag}, materialised_index \in BucketColour :
          /\ op' = [name |-> "resolve", score_func |-> score_func,
                    materialised_index |-> materialised_index]
          /\ ret' = PredictionMarket_resolve(pm, score_func, materialised_index)
    /\ UNCHANGED <<pm, before, dm, buckets, ex, runs, main, agents>>

NextPM == PMReport \/ PMLogResolve \/ PMBrierResolve \/ PMResolve

SpecPM == InitPM /\ [][NextPM]_vars

-----------------------------------------------------------------------------
(* Claims about the stand-alone PredictionMarket (SpecPM) *)

IsPrefix(s, t) == Len(s) <= Len(t) /\ \A i \in 1..Len(s) : t[i] = s[i]

ResolveNames == {"log_resolve", "brier_resolve", "resolve"}

\* ln(sampled_k[o]) - ln(mean_k[o]) summed over the reports k of market m
RECURSIVE SampleGap(_, _, _)
SampleGap(m, o, k) ==
    IF k < 2 THEN NZero
    ELSE NAdd(NSub(NLog(prob_tuple(m.sampled_prediction_history[k])[o + 1]),
                   NLog(prob_tuple(m.mean_prediction_history[k])[o + 1])),
              SampleGap(m, o, k - 1))

LogGain(m, o) ==
    NSub(NLog(prob_tuple(m.current_prediction)[o + 1]),
         NLog(prob_tuple(m.mean_prediction_history[1])[o + 1]))

C9_AppendOnly ==
    [][/\ IsPrefix(pm.sampled_prediction_history, pm'.sampled_prediction_history)
       /\ IsPrefix(pm.mean_prediction_history, pm'.mean_prediction_history)
       /\ (pm' # pm =>
             /\ op'.name = "report"
             /\ Len(pm'.sampled_prediction_history)
                  = Len(pm.sampled_prediction_history) + 1
             /\ Len(pm'.mean_prediction_history)
                  = Len(pm.mean_prediction_history) + 1)
       /\ (op'.name \in ResolveNames => pm' = pm)]_vars

C9_Witness ==
    /\ op.name \in ResolveNames
    /\ ret.tag = "return"
    /\ Len(pm.sampled_prediction_history) = 3
    /\ Len(ret.val) = 2

\* the rule's score of belief p at outcome index o
RuleScore(score_func, p, o) ==
    IF score_func = "LOG" THEN NLog(p[o + 1])
    ELSE NRat(RSub(p[o + 1], half_sum_square(p)))

OpRule ==
    IF op.name = "log_resolve" THEN "LOG"
    ELSE IF op.name = "brier_resolve" THEN "QUADRATIC"
    ELSE op.score_func

\* C10: under both rules the score of report k is the rule's score of the belief
\* report k carried (its sampled prediction) at the materialised outcome minus the
\* rule's score of the market belief current immediately before report k (the prior
\* for the first report); quadratic, current [0.8, 0.2], previous [0.5, 0.5],
\* outcome 0 scores 21/100.
C10_ScoreIsDifference ==
    (op.name \in ResolveNames /\ ret.tag = "return") =>
        /\ Len(ret.val) = Len(before)
        /\ \A k \in 1..Len(ret.val) :
              LET o == op.materialised_index
                  carried == prob_tuple(pm.sampled_prediction_history[k + 1])
                  previous == prob_tuple(before[k])
              IN  /\ ret.val[k] = NSub(RuleScore(OpRule, carried, o),
                                       RuleScore(OpRule, previous, o))
                  /\ (/\ OpRule = "QUADRATIC"
                      /\ carried = << <<4, 5>>, <<1, 5>> >>
                      /\ previous = << <<1, 2>>, <<1, 2>> >>
                      /\ o = 0) => ret.val[k] = NRat(<<21, 100>>)

C10_Witness ==
    /\ op.name = "brier_resolve"
    /\ op.materialised_index = 0
    /\ Len(ret.val) = 2
    /\ prob_tuple(pm.sampled_prediction_history[3]) = << <<4, 5>>, <<1, 5>> >>
    /\ prob_tuple(before[2]) = << <<1, 2>>, <<1, 2>> >>
    /\ pm.sampled_prediction_history[2] # pm.mean_prediction_history[2]
    /\ ret.val[2] = NRat(<<21, 100>>)

\* market m as it was after its first k reports
AfterReports(m, k) ==
    [m EXCEPT !.sampled_prediction_history = SubSeq(@, 1, k + 1),
              !.mean_prediction_history = SubSeq(@, 1, k + 1),
              !.current_prediction = m.mean_prediction_history[k + 1]]

HistoryShape ==
    /\ Len(pm.sampled_prediction_history) = 1 + Len(before)
    /\ Len(pm.mean_prediction_history) = 1 + Len(before)
    /\ pm.sampled_prediction_history[1] = pm.mean_prediction_history[1]
    /\ pm.current_prediction
         = pm.mean_prediction_history[Len(pm.mean_prediction_history)]
    /\ (before # <<>> => before[1] = pm.mean_prediction_history[1])
    /\ (op.name \in {"log_resolve", "brier_resolve"} =>
          /\ Len(ret.val) = Len(before)
          /\ \A k \in 1..Len(ret.val) :
                ret.val[k] = PredictionMarket_resolve(AfterReports(pm, k), OpRule,
                                                      op.materialised_index).val[k])

\* C16: in every reachable state of a PredictionMarket both histories have length
\* 1 + the number of report calls made, their first entries are the prior the market
\* was built with (they start as the prior and are never changed),
\* current_prediction is the last entry of mean_prediction_history, and log_resolve
\* and brier_resolve return one score per report, in report order (the k-th score
\* is the score the market gave report k when it had k reports).
C16_HistoryShape ==
    /\ pm.sampled_prediction_history = <<pm.current_prediction>>
    /\ pm.mean_prediction_history = <<pm.current_prediction>>
    /\ []HistoryShape
    /\ [][/\ pm'.sampled_prediction_history[1] = pm.sampled_prediction_history[1]
          /\ pm'.mean_prediction_history[1] = pm.mean_prediction_history[1]]_vars

C16_Witness ==
    /\ op.name \in {"log_resolve", "brier_resolve"}
    /\ Len(before) = 2
    /\ Len(ret.val) = 2
    /\ ret.val[1] # ret.val[2]
    /\ pm.current_prediction # pm.sampled_prediction_history[3]
    /\ pm.mean_prediction_history[1] # pm.current_prediction

-----------------------------------------------------------------------------
(* SpecDM: one round's MultiBuckets and DecisionMarket *)

ActionNums == {1, 2}

InitDM ==
    /\ \E action_num \in ActionNums :
       \E prior_red_instances \in [1..action_num -> PriorLogits] :
       \E colours \in [1..action_num -> BucketColour] :
       \E decision_rule \in DecisionRule \cup {OtherTag} :
       \E preferred_colour_pr_list \in PrLists(action_num) :
          /\ \A i \in 1..action_num : colours[i] \in bucket_colours(prior_red_instances[i])
          /\ buckets = [i \in 1..action_num |->
                           Bucket_init(i - 1, prior_red_instances[i], <<2, 3>>, <<1, 3>>,
                                       colours[i])]
          /\ dm = DecisionMarket_init(action_num, prior_red_instances, decision_rule,
                                      RED, preferred_colour_pr_list)
    /\ pm = NoMarket
    /\ before = <<>>
    /\ ex = NoExplorer
    /\ runs = NoRuns
    /\ main = NoMain
    /\ agents = <<>>
    /\ op = NoOp
    /\ ret = None

Reported(d) ==
    IF d.conditional_market_num = 0 THEN 0
    ELSE Len(d.conditional_market_list[1].mean_prediction_history) - 1

DMReport ==
    /\ Reported(dm) < MaxAgents
    /\ \E sampled_predictions \in [1..dm.conditional_market_num -> DMLogits],
          mean_predictions \in [1..dm.conditional_market_num -> DMLogits] :
          /\ dm' = DecisionMarket_report(dm, sampled_predictions, mean_predictions)
          /\ ret' = DecisionMarket_report_ret(dm, sampled_predictions, mean_predictions)
          /\ op' = [name |-> "dm_report"]
    /\ UNCHANGED <<pm, before, buckets, ex, runs, main, agents>>

DMResolveDeterministic ==
    /\ deterministic_branch(dm)
    /\ \E score_func \in ScoreFunction \cup {OtherTag} :
          /\ ret' = DecisionMarket_resolve(dm, score_func, buckets, None)
          /\ op' = [name |-> "dm_resolve", score_func |-> score_func,
                    probability |-> ROne]
    /\ UNCHANGED <<pm, before, dm, buckets, ex, runs, main, agents>>

DMResolveStochastic ==
    /\ ~deterministic_branch(dm)
    /\ \E score_func \in ScoreFunction \cup {OtherTag}, draw \in resolve_draws(dm) :
          /\ ret' = DecisionMarket_resolve(dm, score_func, buckets, draw)
          /\ op' = [name |-> "dm_resolve", score_func |-> score_func,
                    probability |-> draw.probability]
    /\ UNCHANGED <<pm, before, dm, buckets, ex, runs, main, agents>>

NextDM == DMReport \/ DMResolveDeterministic \/ DMResolveStochastic

SpecDM == InitDM /\ [][NextDM]_vars

-----------------------------------------------------------------------------
(* Claims about DecisionMarket.resolve (SpecDM) *)

Markets == 1..dm.conditional_market_num

CurrentOf(i) == dm.conditional_market_list[i].current_prediction

\* rank (from 1) of market i by current_prediction, descending, equal predictions in
\* option order
RankOf(i) ==
    1 + Cardinality({j \in Markets : LogitLt(CurrentOf(i), CurrentOf(j))})
      + Cardinality({j \in 1..(i - 1) :
            ~LogitLt(CurrentOf(i), CurrentOf(j)) /\ ~LogitLt(CurrentOf(j), CurrentOf(i))})

SelectionPr(i) == dm.preferred_colour_pr_list[RankOf(i)]

\* the scores of market i alone against the colour of bucket i
OwnScores(i, score_func) ==
    PredictionMarket_resolve(dm.conditional_market_list[i], score_func,
                             buckets[i].colour).val

ZeroScores == [k \in 1..Reported(dm) |-> NZero]

RECURSIVE SumOverDraws(_, _)
SumOverDraws(draws, score_func) ==
    IF draws = {} THEN ZeroScores
    ELSE LET draw == CHOOSE x \in draws : TRUE
         IN  ArrAdd(ArrScale(draw.probability,
                             DecisionMarket_resolve(dm, score_func, buckets, draw).val),
                    SumOverDraws(draws \ {draw}, score_func))

\* expectation of the reward of resolve over the draws of its generator
ExpectedReward(score_func) == SumOverDraws(resolve_draws(dm), score_func)

RECURSIVE SumOwnScores(_, _)
SumOwnScores(options, score_func) ==
    IF options = {} THEN ZeroScores
    ELSE LET i == CHOOSE x \in options : TRUE
         IN  ArrAdd(OwnScores(i, score_func), SumOwnScores(options \ {i}, score_func))

StochasticResolved ==
    /\ op.name = "dm_resolve"
    /\ dm.decision_rule = "STOCHASTIC"
    /\ dm.conditional_market_num > 1
    /\ ret.tag = "return"

\* C3 as stated: the expectation of the STOCHASTIC reward over the rank draws equals
\* the reward the DETERMINISTIC rule returns for the top-ranked option.
C3_ExpectationIsTopReward ==
    StochasticResolved =>
        ExpectedReward(op.score_func) = resolve_deterministic(dm, op.score_func, buckets).val

\* C3 amended: the expectation of the STOCHASTIC reward over the rank draws equals
\* the element-wise sum of the unweighted scores of every option whose rank has a
\* positive selection probability: the DETERMINISTIC reward of the top-ranked option
\* plus the scores of the lower-ranked options that can be drawn.
C3_ExpectationIsSum ==
    StochasticResolved =>
        LET drawable == {i \in Markets : RLt(RZero, SelectionPr(i))}
            top == {i \in drawable : RankOf(i) = 1}
        IN  /\ ExpectedReward(op.score_func) = SumOwnScores(drawable, op.score_func)
            /\ top # {} =>
                 ExpectedReward(op.score_func) =
                    ArrAdd(resolve_deterministic(dm, op.score_func, buckets).val,
                           SumOwnScores(drawable \ top, op.score_func))

C3_Witness ==
    /\ StochasticResolved
    /\ Reported(dm) >= 1
    /\ \A i \in Markets : RLt(RZero, SelectionPr(i))
    /\ ret.val # ZeroScores
    /\ ExpectedReward(op.score_func) = SumOwnScores(Markets, op.score_func)
    /\ ExpectedReward(op.score_func) # resolve_deterministic(dm, op.score_func, buckets).val

\* C4: under STOCHASTIC with more than one option, resolve ranks the markets by
\* current_prediction, descending; each rank k is drawn with probability
\* preferred_colour_pr_list[k]; the returned index is the drawn market's own option
\* id, and the returned scores are that market's scores against the bucket of the
\* same id, each divided by preferred_colour_pr_list[k].
C4_RankSelection ==
    /\ (dm.decision_rule = "STOCHASTIC" /\ dm.conditional_market_num > 1) =>
          \A i \in Markets :
              RLt(RZero, SelectionPr(i)) =>
                  \E draw \in resolve_draws(dm) :
                      /\ draw.row[2] = dm.conditional_market_list[i]
                      /\ draw.probability = SelectionPr(i)
    /\ StochasticResolved =>
          \E i \in Markets :
              /\ ret.index = i - 1
              /\ dm.conditional_market_list[i].no = ret.index
              /\ buckets[i].no = ret.index
              /\ op.probability = SelectionPr(i)
              /\ RLt(RZero, SelectionPr(i))
              /\ ret.val = ArrDiv(OwnScores(i, op.score_func), SelectionPr(i))

C4_Witness ==
    /\ StochasticResolved
    /\ Reported(dm) >= 1
    /\ ret.index = 0
    /\ RankOf(1) = 2
    /\ op.probability = <<1, 5>>
    /\ ret.val # ZeroScores
    /\ ret.val = ArrDiv(OwnScores(1, op.score_func), <<1, 5>>)

\* C5: under DETERMINISTIC, or with a single option, resolve returns the index of an
\* option whose current_prediction is maximal and the scores of that option's market
\* alone against the colour of that option's bucket, undivided.
C5_DeterministicSelection ==
    (op.name = "dm_resolve" /\ deterministic_branch(dm) /\ ret.tag = "return") =>
        /\ ret.index + 1 \in Markets
        /\ \A j \in Markets : ~LogitLt(CurrentOf(ret.index + 1), CurrentOf(j))
        /\ ret.val = OwnScores(ret.index + 1, op.score_func)

C5_Witness ==
    /\ op.name = "dm_resolve"
    /\ dm.decision_rule = "DETERMINISTIC"
    /\ dm.conditional_market_num = 2
    /\ Reported(dm) >= 1
    /\ ret.tag = "return"
    /\ ret.index = 1
    /\ LogitLt(CurrentOf(1), CurrentOf(2))
    /\ ret.val # ZeroScores
    /\ OwnScores(1, op.score_func) # OwnScores(2, op.score_func)

\* C6: resolve ends in an invalid-configuration error, and returns no reward,
\* whenever the score function is not LOG or QUADRATIC or the decision rule is not
\* STOCHASTIC or DETERMINISTIC.
C6_UnknownTagRaises ==
    (/\ op.name = "dm_resolve"
     /\ (op.score_func \notin ScoreFunction \/ dm.decision_rule \notin DecisionRule))
        => ret.tag = "ValueError"

-----------------------------------------------------------------------------
(* SpecExplorer: one Explorer and the calls made on it *)

InitExplorer ==
    /\ \E action_num \in ActionNums, learning \in BOOLEAN, min_std \in MinStds :
          ex = Explorer_init(action_num, learning, ROne, min_std)
    /\ pm = NoMarket
    /\ before = <<>>
    /\ dm = NoDecisionMarket
    /\ buckets = <<>>
    /\ runs = NoRuns
    /\ main = NoMain
    /\ agents = <<>>
    /\ op = NoOp
    /\ ret = None

Called(e) == [e EXCEPT !.calls = @ + 1]

\* theta_std stays on the whole multiples of ln 2 within the bound
InLattice(e) ==
    \A i \in 1..(feature_num * e.action_num), j \in 1..e.action_num :
        /\ e.theta_std[i][j][2] = 1
        /\ Abs(e.theta_std[i][j][1]) <= MaxTheta

ExSetParameters ==
    /\ ex.calls < MaxCalls
    /\ \E mean_array \in MeanArrays(ex.action_num), fixed_std \in FixedStds :
          /\ ex' = Called(set_parameters(ex, mean_array, fixed_std))
          /\ op' = [name |-> "set_parameters", fixed_std |-> fixed_std]
          /\ ret' = None
    /\ UNCHANGED <<pm, before, dm, buckets, runs, main, agents>>

ExReport ==
    /\ ex.calls < MaxCalls
    /\ \E signal_array \in SignalArrays(ex.action_num),
          z \in [1..ex.action_num -> Deviates] :
          /\ ex' = Called(Explorer_report(ex, signal_array, z))
          /\ op' = [name |-> "ex_report"]
          /\ ret' = Explorer_report_ret(ex, signal_array, z)
    /\ UNCHANGED <<pm, before, dm, buckets, runs, main, agents>>

ExUpdate ==
    /\ ex.calls < MaxCalls
    /\ \E reward \in Rewards, signal_array \in SignalArrays(ex.action_num) :
          /\ InLattice(Explorer_update(ex, reward, signal_array))
          /\ ex' = Called(Explorer_update(ex, reward, signal_array))
          /\ op' = [name |-> "ex_update"]
          /\ ret' = Explorer_update_ret(ex, reward, signal_array)
    /\ UNCHANGED <<pm, before, dm, buckets, runs, main, agents>>

NextExplorer == ExSetParameters \/ ExReport \/ ExUpdate

SpecExplorer == InitExplorer /\ [][NextExplorer]_vars

\* C7: with learning=True, after every call of report every element of std_array is
\* at least min_std, and the action was sampled (with that std_array) and returned.
C7_StdAtLeastMin ==
    (op.name = "ex_report" /\ ex.learning) =>
        /\ \A j \in 1..ex.action_num : ~RLt(At(ex.std_array, j), ex.min_std)
        /\ ret.tag = "return"

\* C14: when the Explorer is not in learning mode, no call of report or update
\* changes theta_std or std_array: std_array is what the last set_parameters made it
\* (fixed_std in every element), update changes nothing, and report replaces only
\* the cached action h_array, which it returns.
C14_FixedStd ==
    [][(~ex.learning) =>
          /\ (op'.name \in {"ex_report", "ex_update"} =>
                /\ ex'.theta_std = ex.theta_std
                /\ ex'.std_array = ex.std_array)
          /\ (op'.name = "ex_update" => ex' = Called(ex) /\ ret' = None)
          /\ (op'.name = "ex_report" =>
                /\ ex' = [Called(ex) EXCEPT !.h_array = ex'.h_array]
                /\ ret' = Returned(ex'.h_array, -1))
          /\ (op'.name = "set_parameters" =>
                ex'.std_array = Array([j \in 1..ex.action_num |-> op'.fixed_std]))]_vars

C14_Witness ==
    /\ ~ex.learning
    /\ op.name = "ex_update"
    /\ ex.action_num = 2
    /\ ex.calls = 3
    /\ ex.h_array # <<>>
    /\ ex.h_array # ex.mean_array
    /\ ex.std_array = Array(<< <<1, 2>>, <<1, 2>> >>)
    /\ ex.theta_std = Explorer_init(2, FALSE, ROne, ex.min_std).theta_std

-----------------------------------------------------------------------------
(* SpecSeed: two runs of one round of deterministic_iterative_policy, started
   with the same seed of the process-wide source np.random *)

Seeds == 0..3

\* the process-wide source: a generator whose state is a function of the seed and
\* of the number of draws made
RngModulus == 16
rng_next(state) == (5 * state + 3) % RngModulus

\* the random draws of a round, in program order, and the source each uses
RoundDraws ==
    << [what |-> "prior_red_instances", source |-> "np.random"],
       [what |-> "MultiBuckets.index", source |-> "np.random"],
       [what |-> "Bucket.colour", source |-> "np.random"],
       [what |-> "signal bucket", source |-> "np.random"],
       [what |-> "Bucket.signal ball", source |-> "np.random"],
       [what |-> "Explorer.h_array", source |-> "np.random"],
       [what |-> "resolve selection", source |-> "Generator(PCG64())"] >>

\* what a generator seeded from fresh operating-system entropy can draw
EntropyDraws == {0, 1}

Run_init(seed) == [seed |-> seed, rng |-> seed, trajectory |-> <<>>]

NextDraw(run) == RoundDraws[(Len(run.trajectory) % Len(RoundDraws)) + 1]

\* a draw from np.random: the next value of the seeded generator
draw_global(run) ==
    [run EXCEPT !.rng = rng_next(@),
                !.trajectory = Append(@, [what |-> NextDraw(run).what,
                                          value |-> rng_next(run.rng)])]

\* a draw from Generator(PCG64()), built anew in resolve with no seed
draw_fresh(run, value) ==
    [run EXCEPT !.trajectory = Append(@, [what |-> NextDraw(run).what, value |-> value])]

InitSeed ==
    /\ \E seed \in Seeds : runs = <<Run_init(seed), Run_init(seed)>>
    /\ main = NoMain
    /\ agents = <<>>
    /\ pm = NoMarket
    /\ before = <<>>
    /\ dm = NoDecisionMarket
    /\ buckets = <<>>
    /\ ex = NoExplorer
    /\ op = NoOp
    /\ ret = None

SeedGlobalDraw ==
    /\ \E r \in 1..2 :
          /\ Len(runs[r].trajectory) < MaxDraws
          /\ NextDraw(runs[r]).source = "np.random"
          /\ runs' = [runs EXCEPT ![r] = draw_global(@)]
    /\ UNCHANGED <<pm, before, dm, buckets, ex, main, agents, op, ret>>

SeedResolveDraw ==
    /\ \E r \in 1..2, value \in EntropyDraws :
          /\ Len(runs[r].trajectory) < MaxDraws
          /\ NextDraw(runs[r]).source = "Generator(PCG64())"
          /\ runs' = [runs EXCEPT ![r] = draw_fresh(@, value)]
    /\ UNCHANGED <<pm, before, dm, buckets, ex, main, agents, op, ret>>

NextSeed == SeedGlobalDraw \/ SeedResolveDraw

SpecSeed == InitSeed /\ [][NextSeed]_vars

\* C8: two runs started with the same seed that have made the same number of draws
\* have identical trajectories, the STOCHASTIC selection of resolve included.
C8_SameSeedSameTrajectory ==
    (/\ runs[1].seed = runs[2].seed
     /\ Len(runs[1].trajectory) = Len(runs[2].trajectory))
        => runs[1].trajectory = runs[2].trajectory

-----------------------------------------------------------------------------
(* SpecBelief: a PredictionMarket reported to with belief vectors
   [probability of RED, probability of BLUE], as the callers of its specification
   pass them *)

BeliefProbabilities == {<<3, 10>>, <<1, 2>>, <<7, 10>>}
BeliefVectors == BeliefProbabilities \X BeliefProbabilities

SumsToOne(belief) == RAdd(belief[1], belief[2]) = ROne

InitBelief ==
    /\ pm = PredictionMarket_init(0, << <<1, 2>>, <<1, 2>> >>)
    /\ before = <<>>
    /\ dm = NoDecisionMarket
    /\ buckets = <<>>
    /\ ex = NoExplorer
    /\ runs = NoRuns
    /\ main = NoMain
    /\ agents = <<>>
    /\ op = NoOp
    /\ ret = None

BeliefReport ==
    /\ Len(pm.mean_prediction_history) - 1 < MaxBeliefReports
    /\ \E sampled_prediction \in BeliefVectors, mean_prediction \in BeliefVectors :
          /\ pm' = PredictionMarket_report(pm, sampled_prediction, mean_prediction)
          /\ before' = Append(before, pm.current_prediction)
          /\ op' = [name |-> "report", sampled_prediction |-> sampled_prediction,
                    mean_prediction |-> mean_prediction]
          /\ ret' = None
    /\ UNCHANGED <<dm, buckets, ex, runs, main, agents>>

NextBelief == BeliefReport

SpecBelief == InitBelief /\ [][NextBelief]_vars

\* C1: report rejects every belief whose probabilities do not sum to 1, so only
\* valid beliefs are ever recorded in the histories and in current_prediction, and a
\* report of an invalid belief ends in an error.
C1_OnlyValidRecorded ==
    /\ SumsToOne(pm.current_prediction)
    /\ \A k \in 1..Len(pm.mean_prediction_history) :
          /\ SumsToOne(pm.mean_prediction_history[k])
          /\ SumsToOne(pm.sampled_prediction_history[k])
    /\ (/\ op.name = "report"
        /\ ~(SumsToOne(op.sampled_prediction) /\ SumsToOne(op.mean_prediction)))
          => ret.tag \notin {"None", "return"}

-----------------------------------------------------------------------------
(* SpecSignal: MultiBuckets.signal(size, t) *)

\* <<pr_red_ball_red_bucket, pr_red_ball_blue_bucket>>
EmissionPairs == { << <<2, 3>>, <<1, 3>> >>, << <<1, 1>>, <<0, 1>> >> }

Epochs == {0, 1}

InitSignal ==
    /\ \E bucket_num \in ActionNums :
       \E prior_red_instances \in [1..bucket_num -> PriorLogits] :
       \E colours \in [1..bucket_num -> BucketColour] :
       \E index \in 0..(bucket_num - 1) :
       \E pr \in EmissionPairs :
          /\ \A i \in 1..bucket_num : colours[i] \in bucket_colours(prior_red_instances[i])
          /\ buckets = MultiBuckets_init(bucket_num, prior_red_instances, pr[1], pr[2],
                                        index, colours)
    /\ pm = NoMarket
    /\ before = <<>>
    /\ dm = NoDecisionMarket
    /\ ex = NoExplorer
    /\ runs = NoRuns
    /\ main = NoMain
    /\ agents = <<>>
    /\ op = NoOp
    /\ ret = None

Signal ==
    /\ \E size \in 0..MaxSize, t \in Epochs :
       \E draws \in [1..size -> (1..buckets.bucket_num) \X Ball] :
          /\ \A k \in 1..size : draws[k][2] \in Bucket_signal(buckets.bucket_list[draws[k][1]])
          /\ ret' = Returned(MultiBuckets_signal(buckets, size, t, draws), -1)
          /\ op' = [name |-> "signal", size |-> size, t |-> t, draws |-> draws]
    /\ UNCHANGED <<pm, before, dm, buckets, ex, runs, main, agents>>

NextSignal == Signal

SpecSignal == InitSignal /\ [][NextSignal]_vars

RECURSIVE SeqSum(_)
SeqSum(s) == IF s = <<>> THEN 0 ELSE Head(s) + SeqSum(Tail(s))

\* number of balls of one colour drawn from the bucket of an option
BallsDrawn(option, ball) ==
    Cardinality({k \in 1..Len(op.draws) :
                    /\ buckets.bucket_list[op.draws[k][1]].no = option
                    /\ op.draws[k][2] = ball})

SignalShape ==
    op.name = "signal" =>
       /\ ret.tag = "return"
       /\ Len(ret.val) = 1
       /\ Len(ret.val[1]) = 3 * buckets.bucket_num
       /\ \A option \in 0..(buckets.bucket_num - 1) :
             /\ ret.val[1][3 * option + 1] = BallsDrawn(option, RED)
             /\ ret.val[1][3 * option + 2] = BallsDrawn(option, BLUE)
             /\ ret.val[1][3 * option + 3] = 0
       /\ SeqSum(ret.val[1]) = op.size

\* C15: signal(size, t) returns a count vector of length 3 * bucket_num: for each
\* option slot 0 counts the RED balls and slot 1 the BLUE balls drawn from that
\* option's bucket, slot 2 stays 0, the entries sum to size, and no bucket's colour
\* or parameters change.
C15_SignalCounts ==
    /\ []SignalShape
    /\ [][op'.name = "signal" => buckets' = buckets]_vars

C15_Witness ==
    /\ op.name = "signal"
    /\ op.size = 2
    /\ buckets.bucket_num = 2
    /\ ret.val[1][2] = 1
    /\ ret.val[1][4] = 1

-----------------------------------------------------------------------------
(* Bayesian posterior: NaiveBayesOneIter, BayesianUpdateMat, signal_encode *)

\* scipy.special.logit of a probability strictly between 0 and 1
logit(p) == NLog(RDiv(p, RSub(ROne, p)))

\* prior is indexed by bucket_no + 1; signal is a Ball
NaiveBayesOneIter(prior, signal, bucket_no, pr_rs_ru, pr_rs_bu) ==
    LET b == bucket_no + 1
    IN  IF signal = RED
        THEN [prior EXCEPT ![b] =
                RDiv(RMul(prior[b], pr_rs_ru),
                     RAdd(RMul(prior[b], pr_rs_ru),
                          RMul(RSub(ROne, prior[b]), pr_rs_bu)))]
        ELSE [prior EXCEPT ![b] =
                RDiv(RMul(prior[b], RSub(ROne, pr_rs_ru)),
                     RAdd(RMul(prior[b], RSub(ROne, pr_rs_ru)),
                          RMul(RSub(ROne, prior[b]), RSub(ROne, pr_rs_bu))))]

NIsRat(x) == \A p \in Primes : x.ln[p] = RZero
\* a product one factor of which is rational: the products matmul forms below are
\* of a count with a log-likelihood ratio, of a logit with 1, or have a factor 0
NMul(x, y) == IF NIsRat(x) THEN NScale(x.q, y) ELSE NScale(y.q, x)

\* theta[row, col], 0-based, with the RED and the BLUE row exchanged
BayesianUpdateMat_theta_swapped(row, col, pr_rs_ru, pr_rs_bu) ==
    IF row \div 3 # col THEN NZero
    ELSE CASE row % 3 = 2 -> NRat(ROne)
           [] row % 3 = 1 -> NSub(NLog(pr_rs_ru), NLog(pr_rs_bu))
           [] row % 3 = 0 -> NSub(NLog(RSub(ROne, pr_rs_ru)), NLog(RSub(ROne, pr_rs_bu)))

\* theta[row, col], 0-based
BayesianUpdateMat_theta(row, col, pr_rs_ru, pr_rs_bu) ==
    IF row \div 3 # col THEN NZero
    ELSE CASE row % 3 = 2 -> NRat(ROne)
           [] row % 3 = 0 -> NSub(NLog(pr_rs_ru), NLog(pr_rs_bu))
           [] row % 3 = 1 -> NSub(NLog(RSub(ROne, pr_rs_ru)), NLog(RSub(ROne, pr_rs_bu)))

\* signal_mat is the single row of a (1, 3 * action_num) array; np.squeeze leaves a
\* 0-d array when action_num = 1
BayesianUpdateMat(signal_mat, pr_rs_ru, pr_rs_bu) ==
    LET action_num == Len(signal_mat) \div 3
        product == [col \in 1..action_num |->
                      NSum([row \in 1..Len(signal_mat) |->
                              NMul(signal_mat[row],
                                   BayesianUpdateMat_theta(row - 1, col - 1,
                                                           pr_rs_ru, pr_rs_bu))])]
    IN  IF action_num = 1 THEN Scalar(product[1]) ELSE Array(product)

ball_col_val_map == [red |-> 0, blue |-> 1]

\* the row of the (1, 6) array; prior_pair holds the two prior logits
signal_encode(ball_colour, bucket_no, prior_pair) ==
    LET signal_mat == [j \in 1..6 |-> CASE j = 3 -> prior_pair[1]
                                        [] j = 6 -> prior_pair[2]
                                        [] OTHER -> NZero]
    IN  [signal_mat EXCEPT ![bucket_no * 3 + ball_col_val_map[ball_colour] + 1] =
                               NAdd(@, NRat(ROne))]

\* the same encoding for a single option
signal_encode_single(ball_colour, prior_logit) ==
    LET signal_mat == <<NZero, NZero, prior_logit>>
    IN  [signal_mat EXCEPT ![ball_col_val_map[ball_colour] + 1] = NAdd(@, NRat(ROne))]

-----------------------------------------------------------------------------
(* SpecBayes: the two posterior computations applied to the same observation *)

\* probabilities strictly between 0 and 1 whose logits are combinations of ln 2,
\* ln 3 and ln 5
BeliefPriors == {<<1, 2>>, <<1, 4>>, <<2, 3>>}
EmissionProbabilities == {<<1, 3>>, <<1, 2>>, <<2, 3>>, <<4, 5>>}

ball_colour_of(ball) == IF ball = RED THEN "red" ELSE "blue"

InitBayes ==
    /\ \E action_num \in ActionNums :
       \E prior \in [1..action_num -> BeliefPriors] :
       \E bucket_no \in 0..(action_num - 1) :
       \E signal \in Ball :
       \E pr_rs_ru \in EmissionProbabilities, pr_rs_bu \in EmissionProbabilities :
          op = [name |-> "observed", prior |-> prior, bucket_no |-> bucket_no,
                signal |-> signal, pr_rs_ru |-> pr_rs_ru, pr_rs_bu |-> pr_rs_bu]
    /\ pm = NoMarket
    /\ before = <<>>
    /\ dm = NoDecisionMarket
    /\ buckets = <<>>
    /\ ex = NoExplorer
    /\ runs = NoRuns
    /\ main = NoMain
    /\ agents = <<>>
    /\ ret = None

BayesOneIter ==
    /\ ret' = Returned(NaiveBayesOneIter(op.prior, op.signal, op.bucket_no,
                                         op.pr_rs_ru, op.pr_rs_bu), -1)
    /\ op' = [op EXCEPT !.name = "NaiveBayesOneIter"]
    /\ UNCHANGED <<pm, before, dm, buckets, ex, runs, main, agents>>

BayesMat ==
    /\ LET prior_logits == [k \in 1..Len(op.prior) |-> logit(op.prior[k])]
           signal_mat == IF Len(op.prior) = 2
                         THEN signal_encode(ball_colour_of(op.signal), op.bucket_no,
                                            prior_logits)
                         ELSE signal_encode_single(ball_colour_of(op.signal),
                                                   prior_logits[1])
       IN  ret' = Returned(BayesianUpdateMat(signal_mat, op.pr_rs_ru, op.pr_rs_bu), -1)
    /\ op' = [op EXCEPT !.name = "BayesianUpdateMat"]
    /\ UNCHANGED <<pm, before, dm, buckets, ex, runs, main, agents>>

NextBayes == BayesOneIter \/ BayesMat

SpecBayes == InitBayes /\ [][NextBayes]_vars

\* ln of the likelihood ratio of a ball: P(ball | RED bucket) / P(ball | BLUE bucket)
LogLikelihoodRatio(ball, pr_rs_ru, pr_rs_bu) ==
    IF ball = RED THEN NLog(RDiv(pr_rs_ru, pr_rs_bu))
    ELSE NLog(RDiv(RSub(ROne, pr_rs_ru), RSub(ROne, pr_rs_bu)))

\* C11: for one observed ball on an option, with the prior logits in the passthrough
\* slots, the logit BayesianUpdateMat returns for that option is the logit of the
\* posterior NaiveBayesOneIter computes; from a belief of 0.5 it is the
\* log-likelihood ratio of the ball; the other options keep their prior logit.
C11_MatAgreesWithOneIter ==
    op.name = "BayesianUpdateMat" =>
       LET posterior == NaiveBayesOneIter(op.prior, op.signal, op.bucket_no,
                                          op.pr_rs_ru, op.pr_rs_bu)
       IN  /\ ret.tag = "return"
           /\ \A k \in 1..Len(op.prior) :
                 /\ At(ret.val, k) = logit(posterior[k])
                 /\ k # op.bucket_no + 1 => At(ret.val, k) = logit(op.prior[k])
           /\ op.prior[op.bucket_no + 1] = <<1, 2>> =>
                 At(ret.val, op.bucket_no + 1) =
                    LogLikelihoodRatio(op.signal, op.pr_rs_ru, op.pr_rs_bu)

C11_Witness ==
    /\ op.name = "BayesianUpdateMat"
    /\ Len(op.prior) = 2
    /\ op.bucket_no = 1
    /\ op.signal = BLUE
    /\ op.prior = << <<1, 4>>, <<1, 2>> >>
    /\ op.pr_rs_ru = <<2, 3>>
    /\ op.pr_rs_bu = <<1, 2>>
    /\ At(ret.val, 2) = NLog(<<2, 3>>)
    /\ At(ret.val, 1) = NLog(<<1, 3>>)

-----------------------------------------------------------------------------
(* The training loop of main.py.  main.py is written against the variant of the
   environment in which MultiBuckets.signal() takes no argument and returns one
   (bucket_no, ball), DecisionMarket.report takes the array of probabilities and
   DecisionMarket.log_resolve returns the reward array; the agents come from
   PolicyGradientAgent.  Beliefs are kept as odds: the probability a/(a+b) is the
   pair <<a, b>>, so that expit gives the probability back. *)

odds(p) == <<p[1], p[2] - p[1]>>

\* the arrays an agent or the explorer can report (two of them): logits per option
HArrays(action_num) ==
    {[i \in 1..action_num |-> IF i % 2 = 1 THEN <<1, 4>> ELSE <<4, 1>>],
     [i \in 1..action_num |-> IF i % 2 = 1 THEN <<4, 1>> ELSE <<1, 4>>]}

\* MultiBuckets.signal(): one bucket, and a ball drawn from it
MultiBuckets_signal_one(mb) ==
    {<<mb.bucket_list[i].no, ball>> :
        i \in 1..mb.bucket_num, ball \in Ball} \cap
    UNION {{<<mb.bucket_list[i].no, ball>> : ball \in Bucket_signal(mb.bucket_list[i])} :
              i \in 1..mb.bucket_num}

\* DecisionMarket.report(pi_array): every conditional market records its probability
DecisionMarket_report_pi(d, pi_array) ==
    [d EXCEPT !.conditional_market_list =
        [i \in 1..d.conditional_market_num |->
            PredictionMarket_report(@[i], odds(pi_array[i]), odds(pi_array[i]))]]

\* DecisionMarket.log_resolve(bucket_list): the reward array of the logarithmic rule
DecisionMarket_log_resolve(d, bucket_list, draw) ==
    DecisionMarket_resolve(d, "LOG", bucket_list, draw).val

\* an agent: the number of experiences stored and the epoch of its learning rate
Agent_init == [memory |-> 0, learning_rate_epoch |-> -1]
Agent_store_experience(a) == [a EXCEPT !.memory = @ + 1]
Agent_learning_rate_decay(a, epoch) == [a EXCEPT !.learning_rate_epoch = epoch]
\* what batch_update can do: return, or fail an assertion
Agent_batch_update == {"return", "AssertionError"}
\* the feature vector agent.report returns for a ball
Agent_signal_array(action_num, bucket_no, ball_colour) ==
    [j \in 1..(feature_num * action_num) |->
        IF j = bucket_no * feature_num + ball_colour + 1 THEN 1 ELSE 0]

\* the statements of the body of `for agent in agent_list`, with the market
\* resolved before the report is made
iterative_policy_resolve_first(policy) ==
    IF policy = "stochastic"
    THEN <<"signal", "agent_report", "expit", "log_resolve", "dm_report",
           "store_experience", "batch_update", "learning_rate_decay">>
    ELSE <<"signal", "agent_report", "set_parameters", "explorer_report", "expit",
           "log_resolve", "dm_report", "store_experience", "explorer_update",
           "batch_update", "learning_rate_decay">>

\* the statements of the body of `for agent in agent_list`, in order
iterative_policy(policy) ==
    IF policy = "stochastic"
    THEN <<"signal", "agent_report", "expit", "dm_report", "log_resolve",
           "store_experience", "batch_update", "learning_rate_decay">>
    ELSE <<"signal", "agent_report", "set_parameters", "explorer_report", "expit",
           "dm_report", "log_resolve", "store_experience", "explorer_update",
           "batch_update", "learning_rate_decay">>

\* an except clause that catches nothing
except_clause_none(exception) == FALSE

\* `except AssertionError`
except_clause(exception) == exception = "AssertionError"

NoLocals ==
    [signal |-> <<>>, signal_array |-> <<>>, mean_array |-> <<>>, h_array |-> <<>>,
     pi_array |-> <<>>, reward_array |-> <<>>]

PositionIn(body, pc) == CHOOSE k \in 1..Len(body) : body[k] = pc

\* the statement after the one at m.pc, when that one returns
advance(m, agent_num) ==
    LET body == iterative_policy(m.policy)
    IN  IF m.pc = "draw"
        THEN IF agent_num = 0 THEN [m EXCEPT !.pc = "return"]
             ELSE [m EXCEPT !.pc = body[1], !.agent = 1]
        ELSE IF m.pc = "except" THEN [m EXCEPT !.pc = "learning_rate_decay"]
        ELSE IF PositionIn(body, m.pc) < Len(body)
             THEN [m EXCEPT !.pc = body[PositionIn(body, m.pc) + 1]]
        ELSE IF m.agent < agent_num
             THEN [m EXCEPT !.pc = body[1], !.agent = @ + 1, !.locals = NoLocals]
        ELSE [m EXCEPT !.pc = "return"]

\* history: the calls made in the round so far
Logged(m, name) == [m EXCEPT !.steps = Append(@, [agent |-> m.agent, name |-> name])]

Done(m, name, agent_num) == advance(Logged(m, name), agent_num)

-----------------------------------------------------------------------------
(* SpecMain: stochastic_training and deterministic_training *)

TrainingActionNums == {2}
AgentNums == {0, 1, 2}
\* the argument prior_red_list: a list of one prior
prior_red_list == << <<3, 4>> >>

InitMain ==
    /\ \E policy \in {"stochastic", "deterministic"} :
       \E training_episodes \in 0..MaxEpisodes :
       \E action_num \in TrainingActionNums :
       \E decision_rule \in DecisionRule :
       \E explorer_learning \in BOOLEAN :
       \E agent_num \in AgentNums :
          /\ policy = "stochastic" => ~explorer_learning
          /\ main = [policy |-> policy,
                     training_episodes |-> training_episodes,
                     action_num |-> action_num,
                     decision_rule |-> decision_rule,
                     pr_red_ball_red_bucket |-> <<2, 3>>,
                     pr_red_ball_blue_bucket |-> <<1, 3>>,
                     fixed_std |-> <<3, 10>>,
                     preferred_colour_pr_list |-> << <<4, 5>>, <<1, 5>> >>,
                     t |-> 0,
                     agent |-> 0,
                     pc |-> IF training_episodes = 0 THEN "done" ELSE "draw",
                     locals |-> NoLocals,
                     steps |-> <<>>,
                     caught |-> FALSE]
          /\ agents = [i \in 1..agent_num |-> Agent_init]
          /\ ex = IF policy = "deterministic"
                  THEN Explorer_init(action_num, explorer_learning, <<3, 10000>>, <<1, 10>>)
                  ELSE NoExplorer
    /\ pm = NoMarket
    /\ before = <<>>
    /\ dm = NoDecisionMarket
    /\ buckets = <<>>
    /\ runs = NoRuns
    /\ op = NoOp
    /\ ret = None

\* np.random.choice(prior_red_list, size=action_num), MultiBuckets(...), DecisionMarket(...)
Draw ==
    /\ main.pc = "draw"
    /\ \E prior_red_instances \in [1..main.action_num -> {prior_red_list[k] : k \in 1..Len(prior_red_list)}] :
       \E colours \in [1..main.action_num -> BucketColour] :
       \E index \in 0..(main.action_num - 1) :
          /\ buckets' = MultiBuckets_init(main.action_num, prior_red_instances,
                                         main.pr_red_ball_red_bucket,
                                         main.pr_red_ball_blue_bucket, index, colours)
          /\ dm' = DecisionMarket_init(main.action_num,
                                      [i \in 1..main.action_num |-> odds(prior_red_instances[i])],
                                      main.decision_rule, RED, main.preferred_colour_pr_list)
    /\ main' = Done(main, "draw", Len(agents))
    /\ op' = [name |-> "draw"]
    /\ ret' = None
    /\ UNCHANGED <<pm, before, ex, runs, agents>>

Signal_one ==
    /\ main.pc = "signal"
    /\ \E signal \in MultiBuckets_signal_one(buckets) :
          /\ main' = Done([main EXCEPT !.locals.signal = signal], "signal", Len(agents))
          /\ ret' = Returned(signal, -1)
    /\ op' = [name |-> "signal"]
    /\ UNCHANGED <<pm, before, dm, buckets, ex, runs, agents>>

AgentReport ==
    /\ main.pc = "agent_report"
    /\ \E mean_array \in HArrays(main.action_num), h_array \in HArrays(main.action_num) :
          /\ h_array = mean_array
          /\ main' = Done([main EXCEPT
                              !.locals.signal_array =
                                 Agent_signal_array(main.action_num, main.locals.signal[1],
                                                    main.locals.signal[2]),
                              !.locals.mean_array = mean_array,
                              !.locals.h_array = h_array],
                          "agent_report", Len(agents))
          /\ ret' = Returned(h_array, -1)
    /\ op' = [name |-> "agent_report"]
    /\ UNCHANGED <<pm, before, dm, buckets, ex, runs, agents>>

SetParameters ==
    /\ main.pc = "set_parameters"
    /\ ex' = set_parameters(ex, main.locals.mean_array, main.fixed_std)
    /\ main' = Done(main, "set_parameters", Len(agents))
    /\ op' = [name |-> "set_parameters"]
    /\ ret' = None
    /\ UNCHANGED <<pm, before, dm, buckets, runs, agents>>

\* the sample np.random.normal gives is any array; the comparison of std_array with
\* min_std raises for several options in learning mode
ExplorerReport ==
    /\ main.pc = "explorer_report"
    /\ IF ex.learning /\ ~truth_value_defined(ex)
       THEN /\ ex' = Explorer_report(ex, main.locals.signal_array, <<>>)
            /\ ret' = Raised("ValueError")
            /\ main' = [Logged(main, "explorer_report") EXCEPT !.pc = "terminated"]
       ELSE \E e_h_array \in HArrays(main.action_num) :
               /\ ex' = [ex EXCEPT !.h_array = e_h_array]
               /\ ret' = Returned(e_h_array, -1)
               /\ main' = Done([main EXCEPT !.locals.h_array = e_h_array],
                               "explorer_report", Len(agents))
    /\ op' = [name |-> "explorer_report"]
    /\ UNCHANGED <<pm, before, dm, buckets, runs, agents>>

Expit ==
    /\ main.pc = "expit"
    /\ LET pi_array == [i \in 1..Len(main.locals.h_array) |-> expit(main.locals.h_array[i])]
       IN  /\ main' = Done([main EXCEPT !.locals.pi_array = pi_array], "expit", Len(agents))
           /\ ret' = Returned(pi_array, -1)
    /\ op' = [name |-> "expit"]
    /\ UNCHANGED <<pm, before, dm, buckets, ex, runs, agents>>

MainDMReport ==
    /\ main.pc = "dm_report"
    /\ dm' = DecisionMarket_report_pi(dm, main.locals.pi_array)
    /\ main' = Done(main, "dm_report", Len(agents))
    /\ op' = [name |-> "dm_report"]
    /\ ret' = None
    /\ UNCHANGED <<pm, before, buckets, ex, runs, agents>>

NoDraw == [probability |-> ROne, row |-> <<>>]

LogResolve ==
    /\ main.pc = "log_resolve"
    /\ \E draw \in IF deterministic_branch(dm) THEN {NoDraw} ELSE resolve_draws(dm) :
          LET reward_array == DecisionMarket_log_resolve(dm, buckets.bucket_list, draw)
          IN  /\ main' = Done([main EXCEPT !.locals.reward_array = reward_array],
                              "log_resolve", Len(agents))
              /\ ret' = Returned(reward_array, -1)
    /\ op' = [name |-> "log_resolve"]
    /\ UNCHANGED <<pm, before, dm, buckets, ex, runs, agents>>

StoreExperience ==
    /\ main.pc = "store_experience"
    /\ agents' = [agents EXCEPT ![main.agent] = Agent_store_experience(@)]
    /\ main' = Done(main, "store_experience", Len(agents))
    /\ op' = [name |-> "store_experience"]
    /\ ret' = None
    /\ UNCHANGED <<pm, before, dm, buckets, ex, runs>>

ExplorerUpdate ==
    /\ main.pc = "explorer_update"
    /\ ex' = Explorer_update(ex, main.locals.reward_array, main.locals.signal_array)
    /\ main' = Done(main, "explorer_update", Len(agents))
    /\ op' = [name |-> "explorer_update"]
    /\ ret' = None
    /\ UNCHANGED <<pm, before, dm, buckets, runs, agents>>

\* try: agent.batch_update(t)
BatchUpdate ==
    /\ main.pc = "batch_update"
    /\ \E outcome \in Agent_batch_update :
          IF outcome = "return"
          THEN /\ main' = Done(main, "batch_update", Len(agents))
               /\ ret' = None
          ELSE /\ main' = [Logged(main, "batch_update") EXCEPT
                              !.pc = IF except_clause(outcome) THEN "except"
                                     ELSE "terminated"]
               /\ ret' = Raised(outcome)
    /\ op' = [name |-> "batch_update"]
    /\ UNCHANGED <<pm, before, dm, buckets, ex, runs, agents>>

\* except AssertionError: tb = traceback.format_exc(); print(tb)
Except ==
    /\ main.pc = "except"
    /\ main' = Done([main EXCEPT !.caught = TRUE], "except", Len(agents))
    /\ op' = [name |-> "print"]
    /\ ret' = None
    /\ UNCHANGED <<pm, before, dm, buckets, ex, runs, agents>>

LearningRateDecay ==
    /\ main.pc = "learning_rate_decay"
    /\ agents' = [agents EXCEPT ![main.agent] = Agent_learning_rate_decay(@, main.t)]
    /\ main' = Done(main, "learning_rate_decay", Len(agents))
    /\ op' = [name |-> "learning_rate_decay"]
    /\ ret' = None
    /\ UNCHANGED <<pm, before, dm, buckets, ex, runs>>

\* the policy function returns (its locals are gone) and `for t` goes on
Return ==
    /\ main.pc = "return"
    /\ main' = [main EXCEPT !.pc = IF main.t + 1 < main.training_episodes
                                   THEN "draw" ELSE "done",
                            !.t = @ + 1,
                            !.agent = 0,
                            !.locals = NoLocals,
                            !.steps = <<>>]
    /\ buckets' = <<>>
    /\ dm' = NoDecisionMarket
    /\ op' = [name |-> "return"]
    /\ ret' = None
    /\ UNCHANGED <<pm, before, ex, runs, agents>>

NextMain ==
    \/ Draw
    \/ Signal_one
    \/ AgentReport
    \/ SetParameters
    \/ ExplorerReport
    \/ Expit
    \/ MainDMReport
    \/ LogResolve
    \/ StoreExperience
    \/ ExplorerUpdate
    \/ BatchUpdate
    \/ Except
    \/ LearningRateDecay
    \/ Return

SpecMain == InitMain /\ [][NextMain]_vars

Updates == {"store_experience", "explorer_update", "batch_update"}

\* step i of the round comes after a step `name` of the same agent's turn
Preceded(i, name) ==
    \E j \in 1..(i - 1) :
       /\ main.steps[j].name = name
       /\ main.steps[j].agent = main.steps[i].agent

RoundInOrder ==
    /\ \A i \in 1..Len(main.steps) :
          /\ main.steps[i].name = "draw" <=> i = 1
          /\ \A j \in 1..(i - 1) : main.steps[j].agent <= main.steps[i].agent
          /\ main.steps[i].name = "agent_report" => Preceded(i, "signal")
          /\ main.steps[i].name = "explorer_report" => Preceded(i, "agent_report")
          /\ main.steps[i].name = "dm_report" =>
                /\ Preceded(i, "agent_report")
                /\ main.policy = "deterministic" => Preceded(i, "explorer_report")
          /\ main.steps[i].name = "log_resolve" => Preceded(i, "dm_report")
          /\ main.steps[i].name \in Updates => Preceded(i, "log_resolve")
    /\ main.pc \in Updates => main.locals.reward_array # <<>>

====
